---- MODULE Spec2Model ----
(***************************************************************************)
(* Book-relay Telegram bot.  Two deployment variants share three update    *)
(* handlers (start, button_handler, handle_message):                       *)
(*   "polling" - src/main.py: main() starts a FastAPI thread, a keep-alive *)
(*               thread and a health-monitor thread, then run_polling();   *)
(*               a crash of run_polling is followed by a recursive main(). *)
(*   "webhook" - src/bot.py: module-level environment check, FastAPI       *)
(*               on_startup / on_shutdown lifecycle and the POST /webhook  *)
(*               route feeding application.update_queue.                   *)
(* Spec        : the life of the whole service in either variant.          *)
(* HandlerSpec : the three handlers on every text up to MaxLen characters  *)
(*               and every outcome of the transport calls.                 *)
(***************************************************************************)
EXTENDS Integers, Sequences, FiniteSets, TLC

\* ------------------------------------------------------------------ bounds
\* Longest message text enumerated.
MaxLen == 3
\* Largest number of updates waiting on application.update_queue.
MaxQueue == 2
\* Deepest nesting of main() frames the interpreter allows before it raises
\* RecursionError (sys.getrecursionlimit(), scaled down).
RecursionLimit == 3

\* ------------------------------------------------------------- environment
Variants == {"polling", "webhook"}
\* os.getenv(name) of an unset variable.
None == "<None>"
NumericId == "-1001"
EnvNames == {"BOT_TOKEN", "PRIVATE_CHANNEL_ID", "PUBLIC_CHANNEL", "WEBHOOK_URL"}

\* What os.getenv may return for each variable: unset, empty, or a value.
\* PRIVATE_CHANNEL_ID is later passed to int(): a numeric and a non-numeric
\* value are both kept.
EnvValues(k) ==
    CASE k = "BOT_TOKEN" -> {None, "", "token"}
      [] k = "PRIVATE_CHANNEL_ID" -> {None, "", NumericId, "@source"}
      [] k = "PUBLIC_CHANNEL" -> {None, "", "@public"}
      [] k = "WEBHOOK_URL" -> {None, "", "https://host/webhook"}

\* The variables each variant requires.
Required(v) ==
    IF v = "webhook"
    THEN {"BOT_TOKEN", "PRIVATE_CHANNEL_ID", "PUBLIC_CHANNEL", "WEBHOOK_URL"}
    ELSE {"BOT_TOKEN", "PRIVATE_CHANNEL_ID", "PUBLIC_CHANNEL"}

\* Faulty variant of Missing: tests for an unset variable only.
MissingOnlyUnset(x) == x = None
\* `not v`: None and the empty string are both falsy.
Missing(x) == x = None \/ x = ""

\* int(PRIVATE_CHANNEL_ID) succeeds.
ChannelIdOk(x) == x = NumericId

\* -------------------------------------------------------------------- text
\* Characters of a message text, one of each class Python tells apart:
\*   "1"    ASCII digit                    isdigit, int() = 1
\*   "2"    ASCII digit                    isdigit, int() = 2
\*   "AI3"  ARABIC-INDIC DIGIT THREE       isdigit, int() = 3
\*   "SUP2" SUPERSCRIPT TWO                isdigit, int() raises ValueError
\*   " "    whitespace
\*   "a"    letter
Chars == {"1", "2", "AI3", "SUP2", " ", "a"}
Texts == UNION {[1..n -> Chars] : n \in 0..MaxLen}

IsSpace(c) == c = " "
IsAsciiDigit(c) == c \in {"1", "2"}
\* str.isdigit on one character.
IsDigitChar(c) == c \in {"1", "2", "AI3", "SUP2"}
\* The characters int() accepts as decimal digits.
IsDecimalChar(c) == c \in {"1", "2", "AI3"}
DigitValue(c) == IF c = "1" THEN 1 ELSE IF c = "2" THEN 2 ELSE 3

RECURSIVE lstrip(_)
lstrip(s) == IF s # <<>> /\ IsSpace(Head(s)) THEN lstrip(Tail(s)) ELSE s

RECURSIVE rstrip(_)
rstrip(s) ==
    IF s # <<>> /\ IsSpace(s[Len(s)]) THEN rstrip(SubSeq(s, 1, Len(s) - 1)) ELSE s

\* str.strip()
strip(s) == rstrip(lstrip(s))

\* str.isdigit(): non-empty and every character a digit.
isdigit(s) == s # <<>> /\ \A i \in 1..Len(s) : IsDigitChar(s[i])

\* int(s) does not raise ValueError (s already stripped).
IntOk(s) == s # <<>> /\ \A i \in 1..Len(s) : IsDecimalChar(s[i])

RECURSIVE IntVal(_)
\* int(s) of a string of decimal digits.
IntVal(s) ==
    IF s = <<>> THEN 0
    ELSE 10 * IntVal(SubSeq(s, 1, Len(s) - 1)) + DigitValue(s[Len(s)])

\* Faulty variant of IsLookup: tests the raw text, without strip().
IsLookupRaw(text) == isdigit(text)
\* handle_message's branch condition: text.strip().isdigit()
IsLookup(text) == isdigit(strip(text))

\* ------------------------------------------------------------- transport
\* How a call of the transport (reply_text, answer, edit_message_text) ends.
CallOutcomes == {"ok", "NetworkError"}
\* How forward_message ends: the platform does not tell these apart for the
\* caller other than by the exception raised.
ForwardOutcomes == {"ok", "NotFound", "Forbidden", "NetworkError"}
Tokens == {"get_started", "help", "other"}

\* Message bodies: the fixed text's name followed by the values the f-string
\* interpolates.
WelcomeBody(pub) == <<"welcome", pub>>
OnboardingBody(pub) == <<"onboarding", pub>>
HelpBody(v, pub) == IF v = "polling" THEN <<"help", pub>> ELSE <<"help">>
FallbackBody(pub) == <<"send_numeric_id", pub>>
ConfirmBody == <<"book_sent">>
\* Faulty variant of ErrorBody: shows the exception to the user.
ErrorBodyLeaky(pub, e) == <<"error", pub, e>>
\* f"Error. Check ID at {PUBLIC_CHANNEL}", built in `except Exception as e`.
ErrorBody(pub, e) == <<"error", pub>>

NoUpdate == [handler |-> "none"]

\* The record of one handling pass: the calls made, in order, and how the
\* handler ended (raised = the exception that left the handler).
Pass(h) ==
    [handler |-> h, text |-> <<>>, data |-> "", forwards |-> <<>>,
     replies |-> <<>>, answered |-> "no", edits |-> <<>>, log |-> <<>>,
     raised |-> "none"]

Raised(out) == IF out = "ok" THEN "none" ELSE out

start(v, cfg, r) ==
    [Pass("start") EXCEPT
        !.replies = <<[body |-> WelcomeBody(cfg["PUBLIC_CHANNEL"]), ok |-> r = "ok"]>>,
        !.raised = Raised(r)]

\* The body button_handler edits the message to, as a sequence of zero or one
\* bodies: src/main.py has `elif query.data == "help"` and edits nothing for
\* any other token, src/bot.py has a plain `else`.
ButtonBody(v, pub, data) ==
    IF data = "get_started" THEN <<OnboardingBody(pub)>>
    ELSE IF v = "webhook" \/ data = "help" THEN <<HelpBody(v, pub)>>
    ELSE <<>>

button_handler(v, cfg, data, a, e) ==
    LET base == [Pass("button_handler") EXCEPT !.data = data]
        bodies == ButtonBody(v, cfg["PUBLIC_CHANNEL"], data)
    IN  IF a # "ok"
        THEN [base EXCEPT !.answered = "failed", !.raised = a]
        ELSE IF bodies = <<>>
        THEN [base EXCEPT !.answered = "ok"]
        ELSE [base EXCEPT
                !.answered = "ok",
                !.edits = <<[body |-> bodies[1], ok |-> e = "ok"]>>,
                !.raised = Raised(e)]

\* Faulty variant of RelayTry: the confirmation is sent before forward_message is
\* awaited.
RelayTryConfirmFirst(cfg, t, f, r1) ==
    LET call == [chat_id |-> "effective_chat",
                 from_chat_id |-> cfg["PRIVATE_CHANNEL_ID"],
                 message_id |-> IntVal(t)]
        sent == <<[body |-> <<"book_sent">>, ok |-> r1 = "ok"]>>
    IN  IF ~ChannelIdOk(cfg["PRIVATE_CHANNEL_ID"]) \/ ~IntOk(t)
        THEN [forwards |-> <<>>, replies |-> <<>>, exc |-> "ValueError"]
        ELSE IF r1 # "ok"
        THEN [forwards |-> <<>>, replies |-> sent, exc |-> r1]
        ELSE [forwards |-> <<[call |-> call, ok |-> f = "ok"]>>, replies |-> sent,
              exc |-> Raised(f)]
\* The try block of handle_message: the keyword arguments are evaluated in
\* order (int(PRIVATE_CHANNEL_ID), then int(text)), then forward_message is
\* awaited, then the confirmation is sent.  exc is the exception that ends
\* the block, "none" when it runs to its end.
RelayTry(cfg, t, f, r1) ==
    LET call == [chat_id |-> "effective_chat",
                 from_chat_id |-> cfg["PRIVATE_CHANNEL_ID"],
                 message_id |-> IntVal(t)]
    IN  IF ~ChannelIdOk(cfg["PRIVATE_CHANNEL_ID"]) \/ ~IntOk(t)
        THEN [forwards |-> <<>>, replies |-> <<>>, exc |-> "ValueError"]
        ELSE IF f # "ok"
        THEN [forwards |-> <<[call |-> call, ok |-> FALSE]>>, replies |-> <<>>,
              exc |-> f]
        ELSE [forwards |-> <<[call |-> call, ok |-> TRUE]>>,
              replies |-> <<[body |-> ConfirmBody, ok |-> r1 = "ok"]>>,
              exc |-> Raised(r1)]

\* f: outcome of forward_message; r1: outcome of the first reply_text the
\* handler reaches; r2: outcome of the reply_text of the except block.
handle_message(v, cfg, text, f, r1, r2) ==
    LET base == [Pass("handle_message") EXCEPT !.text = text]
        t == strip(text)
        pub == cfg["PUBLIC_CHANNEL"]
    IN  IF IsLookup(text)
        THEN LET try == RelayTry(cfg, t, f, r1)
             IN  IF try.exc = "none"
                 THEN [base EXCEPT !.forwards = try.forwards,
                                   !.replies = try.replies]
                 ELSE [base EXCEPT
                         !.forwards = try.forwards,
                         !.log = <<try.exc>>,
                         !.replies = try.replies \o
                             <<[body |-> ErrorBody(pub, try.exc), ok |-> r2 = "ok"]>>,
                         !.raised = Raised(r2)]
        ELSE [base EXCEPT
                !.replies = <<[body |-> FallbackBody(pub), ok |-> r1 = "ok"]>>,
                !.raised = Raised(r1)]

\* ------------------------------------------------------------ HTTP surface
BodyKinds == {"malformed", "update"}
NoResponse == [body |-> "none", status |-> 0, enqueued |-> FALSE]

\* Faulty variant of telegram_webhook: tests readiness before decoding the body.
telegram_webhook_ready_first(body, appSet) ==
    IF ~appSet THEN [body |-> body, status |-> 503, enqueued |-> FALSE]
    ELSE IF body = "malformed" THEN [body |-> body, status |-> 400, enqueued |-> FALSE]
    ELSE [body |-> body, status |-> 200, enqueued |-> TRUE]
\* POST /webhook: request.json() first (400), then the test of
\* app.state.telegram_app (503), then update_queue.put and {"ok": true}.
telegram_webhook(body, appSet) ==
    IF body = "malformed" THEN [body |-> body, status |-> 400, enqueued |-> FALSE]
    ELSE IF ~appSet THEN [body |-> body, status |-> 503, enqueued |-> FALSE]
    ELSE [body |-> body, status |-> 200, enqueued |-> TRUE]

\* ------------------------------------------------------------------- state
VARIABLES
    variant,      \* which program runs
    env,          \* TOKEN, PRIVATE_CHANNEL_ID, PUBLIC_CHANNEL, WEBHOOK_URL as read at import
    pc,           \* where the main thread is
    exitCause,    \* why the process ended, "none" while it runs
    depth,        \* nested main() frames (polling)
    fastapi,      \* one entry per FastAPI thread started (polling)
    keepAlive,    \* one entry per keep-alive thread started (polling)
    health,       \* one entry per health-monitor thread started (polling)
    serverUp,     \* uvicorn.run has been called in the main thread (webhook)
    handlers,     \* handlers registered on the current Application
    appState,     \* the current Application: none, built, initialized, running, stopped
    appSet,       \* app.state.telegram_app is set (webhook)
    webhook,      \* the webhook registered with Telegram: none, deleted, set
    queueLen,     \* updates waiting on application.update_queue (webhook)
    http,         \* the last response of POST /webhook
    cur,          \* the handling pass just completed, NoUpdate between passes
    lastFailure,  \* cause and error reply of the last failed relay before cur
    handled       \* some update has been handled

vars == <<variant, env, pc, exitCause, depth, fastapi, keepAlive, health, serverUp,
          handlers, appState, appSet, webhook, queueLen, http, cur, lastFailure,
          handled>>

AllHandlers == {"start", "button_handler", "handle_message"}
NoFailure == <<>>

\* The configurations the process may be started with.  The polling variant
\* never reads WEBHOOK_URL.
Configs(v) ==
    {c \in [EnvNames -> UNION {EnvValues(k) : k \in EnvNames}] :
        /\ \A k \in EnvNames : c[k] \in EnvValues(k)
        /\ v = "polling" => c["WEBHOOK_URL"] = None}

Init ==
    /\ variant \in Variants
    /\ env \in Configs(variant)
    /\ pc = "boot"
    /\ exitCause = "none"
    /\ depth = 0
    /\ fastapi = <<>>
    /\ keepAlive = <<>>
    /\ health = <<>>
    /\ serverUp = FALSE
    /\ handlers = {}
    /\ appState = "none"
    /\ appSet = FALSE
    /\ webhook = "none"
    /\ queueLen = 0
    /\ http = NoResponse
    /\ cur = NoUpdate
    /\ lastFailure = NoFailure
    /\ handled = FALSE

Dead(threads) == [i \in DOMAIN threads |-> "dead"]

\* The process ends: its daemon threads and its server end with it.
Exit(cause) ==
    /\ pc' = "exited"
    /\ exitCause' = cause
    /\ fastapi' = Dead(fastapi)
    /\ keepAlive' = Dead(keepAlive)
    /\ health' = Dead(health)
    /\ serverUp' = FALSE

Running == pc # "exited"

\* ------------------------------------------------- polling variant: main()
\* `if __name__ == "__main__": main()`
MainEntry ==
    /\ variant = "polling" /\ pc = "boot"
    /\ depth' = depth + 1
    /\ pc' = "validate"
    /\ UNCHANGED <<variant, env, exitCause, fastapi, keepAlive, health, serverUp,
                   handlers, appState, appSet, webhook, queueLen, http, cur,
                   lastFailure, handled>>

\* `if not all([TOKEN, PRIVATE_CHANNEL_ID, PUBLIC_CHANNEL])`: log and raise
\* ValueError, which nothing catches.
MainValidate ==
    /\ variant = "polling" /\ pc = "validate"
    /\ IF \E k \in Required("polling") : Missing(env[k])
       THEN Exit("ValueError")
       ELSE /\ pc' = "start_threads"
            /\ UNCHANGED <<exitCause, fastapi, keepAlive, health, serverUp>>
    /\ UNCHANGED <<variant, env, depth, handlers, appState, appSet, webhook,
                   queueLen, http, cur, lastFailure, handled>>

\* Faulty variant of ThreadsAfterStart: a restart reuses the threads already started.
ThreadsStartedOnce(threads, state) ==
    IF threads = <<>> THEN <<state>> ELSE threads
\* threading.Thread(target=..., daemon=True).start(): one more thread, in
\* the given state.
ThreadsAfterStart(threads, state) == Append(threads, state)

\* The FastAPI thread and the keep-alive thread are started.
MainStartThreads ==
    /\ variant = "polling" /\ pc = "start_threads"
    /\ fastapi' = ThreadsAfterStart(fastapi, "started")
    /\ keepAlive' = ThreadsAfterStart(keepAlive, "running")
    /\ pc' = "build_app"
    /\ UNCHANGED <<variant, env, exitCause, depth, health, serverUp, handlers,
                   appState, appSet, webhook, queueLen, http, cur, lastFailure,
                   handled>>

\* Application.builder().token(TOKEN).build(), the three add_handler calls
\* and the health-monitor thread.
MainBuildApp ==
    /\ variant = "polling" /\ pc = "build_app"
    /\ appState' = "built"
    /\ handlers' = AllHandlers
    /\ health' = ThreadsAfterStart(health, "running")
    /\ pc' = "run_polling"
    /\ UNCHANGED <<variant, env, exitCause, depth, fastapi, keepAlive, serverUp,
                   appSet, webhook, queueLen, http, cur, lastFailure, handled>>

\* application.run_polling(...) is entered.
RunPolling ==
    /\ variant = "polling" /\ pc = "run_polling"
    /\ appState' = "running"
    /\ pc' = "polling"
    /\ UNCHANGED <<variant, env, exitCause, depth, fastapi, keepAlive, health,
                   serverUp, handlers, appSet, webhook, queueLen, http, cur,
                   lastFailure, handled>>

\* run_polling raises: `except Exception` logs it and sleeps.
PollingCrash ==
    /\ variant = "polling" /\ pc = "polling"
    /\ appState' = "stopped"
    /\ pc' = "sleeping"
    /\ UNCHANGED <<variant, env, exitCause, depth, fastapi, keepAlive, health,
                   serverUp, handlers, appSet, webhook, queueLen, http, cur,
                   lastFailure, handled>>

\* run_polling returns (a stop signal): every main() frame returns.
PollingStop ==
    /\ variant = "polling" /\ pc = "polling"
    /\ appState' = "stopped"
    /\ Exit("stopped")
    /\ UNCHANGED <<variant, env, depth, handlers, appSet, webhook, queueLen,
                   http, cur, lastFailure, handled>>

\* After time.sleep(60) the except block calls main() again, one frame
\* deeper.  At the interpreter's recursion limit the call raises
\* RecursionError inside the except block of every frame, so nothing
\* catches it.
Restart ==
    /\ variant = "polling" /\ pc = "sleeping"
    /\ IF depth < RecursionLimit
       THEN /\ depth' = depth + 1
            /\ pc' = "validate"
            /\ UNCHANGED <<exitCause, fastapi, keepAlive, health, serverUp>>
       ELSE /\ Exit("RecursionError")
            /\ UNCHANGED depth
    /\ UNCHANGED <<variant, env, handlers, appState, appSet, webhook, queueLen,
                   http, cur, lastFailure, handled>>

\* ------------------------------------------------ polling variant: threads
\* run_fastapi in thread i: uvicorn binds PORT if no earlier thread holds it,
\* and otherwise fails and the thread ends.
run_fastapi(i) ==
    /\ Running /\ i \in DOMAIN fastapi /\ fastapi[i] = "started"
    /\ fastapi' = [fastapi EXCEPT ![i] =
                      IF \E j \in DOMAIN fastapi : fastapi[j] = "serving"
                      THEN "bind_failed" ELSE "serving"]
    /\ UNCHANGED <<variant, env, pc, exitCause, depth, keepAlive, health, serverUp,
                   handlers, appState, appSet, webhook, queueLen, http, cur,
                   lastFailure, handled>>

\* One round of a `while True` loop whose body catches the exception.
LoopAfter(out) == "running"

\* keep_alive in thread i: requests.get succeeds or raises RequestException.
keep_alive(i) ==
    /\ Running /\ i \in DOMAIN keepAlive /\ keepAlive[i] = "running"
    /\ \E out \in {"ok", "RequestException"} :
          keepAlive' = [keepAlive EXCEPT ![i] = LoopAfter(out)]
    /\ UNCHANGED <<variant, env, pc, exitCause, depth, fastapi, health, serverUp,
                   handlers, appState, appSet, webhook, queueLen, http, cur,
                   lastFailure, handled>>

\* bot_health_monitor in thread i: get_me and the reading of .username
\* succeed or raise; `except Exception` logs.
bot_health_monitor(i) ==
    /\ Running /\ i \in DOMAIN health /\ health[i] = "running"
    /\ \E out \in {"ok", "Exception"} :
          health' = [health EXCEPT ![i] = LoopAfter(out)]
    /\ UNCHANGED <<variant, env, pc, exitCause, depth, fastapi, keepAlive, serverUp,
                   handlers, appState, appSet, webhook, queueLen, http, cur,
                   lastFailure, handled>>

\* ------------------------------------------------ webhook variant: startup
\* Module level of src/bot.py: `if not all([...]): raise RuntimeError`, then
\* bot = Bot(TOKEN) and app = FastAPI().
EnvCheck ==
    /\ variant = "webhook" /\ pc = "boot"
    /\ IF \E k \in Required("webhook") : Missing(env[k])
       THEN Exit("RuntimeError")
       ELSE /\ pc' = "run"
            /\ UNCHANGED <<exitCause, fastapi, keepAlive, health, serverUp>>
    /\ UNCHANGED <<variant, env, depth, handlers, appState, appSet, webhook,
                   queueLen, http, cur, lastFailure, handled>>

\* run(): uvicorn.run("main:app", ...)
Run ==
    /\ variant = "webhook" /\ pc = "run"
    /\ serverUp' = TRUE
    /\ pc' = "on_startup"
    /\ UNCHANGED <<variant, env, exitCause, depth, fastapi, keepAlive, health,
                   handlers, appState, appSet, webhook, queueLen, http, cur,
                   lastFailure, handled>>

\* on_startup up to its first await: the application is built, its handlers
\* are registered and it is stored in app.state.telegram_app.
OnStartupBuild ==
    /\ variant = "webhook" /\ pc = "on_startup"
    /\ appState' = "built"
    /\ handlers' = AllHandlers
    /\ appSet' = TRUE
    /\ pc' = "delete_webhook"
    /\ UNCHANGED <<variant, env, exitCause, depth, fastapi, keepAlive, health,
                   serverUp, webhook, queueLen, http, cur, lastFailure, handled>>

\* An exception leaves on_startup: the server gives up and the process ends.
StartupFailed ==
    /\ Exit("startup_failed")
    /\ UNCHANGED <<variant, env, depth, handlers, appState, appSet, webhook,
                   queueLen, http, cur, lastFailure, handled>>

\* await bot.delete_webhook(drop_pending_updates=True)
StartupDeleteWebhook ==
    /\ variant = "webhook" /\ pc = "delete_webhook"
    /\ \E out \in CallOutcomes :
          IF out = "ok"
          THEN /\ webhook' = "deleted"
               /\ pc' = "set_webhook"
               /\ UNCHANGED <<variant, env, exitCause, depth, fastapi, keepAlive,
                              health, serverUp, handlers, appState, appSet,
                              queueLen, http, cur, lastFailure, handled>>
          ELSE StartupFailed

\* ok = await bot.set_webhook(WEBHOOK_URL): a False result is only logged.
StartupSetWebhook ==
    /\ variant = "webhook" /\ pc = "set_webhook"
    /\ \E out \in {"True", "False", "NetworkError"} :
          IF out = "NetworkError"
          THEN StartupFailed
          ELSE /\ webhook' = IF out = "True" THEN "set" ELSE webhook
               /\ pc' = "initialize"
               /\ UNCHANGED <<variant, env, exitCause, depth, fastapi, keepAlive,
                              health, serverUp, handlers, appState, appSet,
                              queueLen, http, cur, lastFailure, handled>>

\* await application.initialize()
StartupInitialize ==
    /\ variant = "webhook" /\ pc = "initialize"
    /\ \E out \in CallOutcomes :
          IF out = "ok"
          THEN /\ appState' = "initialized"
               /\ pc' = "start"
               /\ UNCHANGED <<variant, env, exitCause, depth, fastapi, keepAlive,
                              health, serverUp, handlers, appSet, webhook,
                              queueLen, http, cur, lastFailure, handled>>
          ELSE StartupFailed

\* await application.start(): the application begins to take updates off
\* its queue.
StartupStart ==
    /\ variant = "webhook" /\ pc = "start"
    /\ appState' = "running"
    /\ pc' = "serving"
    /\ UNCHANGED <<variant, env, exitCause, depth, fastapi, keepAlive, health,
                   serverUp, handlers, appSet, webhook, queueLen, http, cur,
                   lastFailure, handled>>

\* on_shutdown: application.stop() and application.shutdown();
\* app.state.telegram_app is left as it is.
OnShutdownStop ==
    /\ variant = "webhook" /\ pc = "serving"
    /\ appState' = "stopped"
    /\ pc' = "shutdown_delete_webhook"
    /\ UNCHANGED <<variant, env, exitCause, depth, fastapi, keepAlive, health,
                   serverUp, handlers, appSet, webhook, queueLen, http, cur,
                   lastFailure, handled>>

\* on_shutdown: bot.delete_webhook(drop_pending_updates=False) inside
\* try/except, then the process ends.
OnShutdownDeleteWebhook ==
    /\ variant = "webhook" /\ pc = "shutdown_delete_webhook"
    /\ \E out \in CallOutcomes :
          webhook' = IF out = "ok" THEN "deleted" ELSE webhook
    /\ Exit("shutdown")
    /\ UNCHANGED <<variant, env, depth, handlers, appState, appSet, queueLen,
                   http, cur, lastFailure, handled>>

\* A POST to /webhook.  The route's own test of app.state.telegram_app is
\* the only readiness check in the source, so a request is taken at any
\* moment between uvicorn.run and the end of the process.
WebhookPost ==
    /\ variant = "webhook" /\ serverUp /\ Running
    /\ \E body \in BodyKinds :
          LET resp == telegram_webhook(body, appSet)
          IN  /\ resp.enqueued => queueLen < MaxQueue
              /\ http' = resp
              /\ queueLen' = IF resp.enqueued THEN queueLen + 1 ELSE queueLen
    /\ UNCHANGED <<variant, env, pc, exitCause, depth, fastapi, keepAlive, health,
                   serverUp, handlers, appState, appSet, webhook, cur,
                   lastFailure, handled>>

\* ---------------------------------------------------------------- dispatch
\* The running Application hands an update to the handler registered for
\* its kind: in polling mode as get_updates returns it, in webhook mode as
\* it comes off update_queue.
CanDispatch(h) ==
    /\ Running /\ appState = "running" /\ h \in handlers
    /\ cur = NoUpdate
    /\ variant = "webhook" => queueLen > 0

Dispatched(pass) ==
    /\ cur' = pass
    /\ handled' = TRUE
    /\ queueLen' = IF variant = "webhook" THEN queueLen - 1 ELSE queueLen
    /\ UNCHANGED <<variant, env, pc, exitCause, depth, fastapi, keepAlive, health,
                   serverUp, handlers, appState, appSet, webhook, http,
                   lastFailure>>

DispatchStart ==
    /\ CanDispatch("start")
    /\ \E r \in CallOutcomes : Dispatched(start(variant, env, r))

DispatchButton ==
    /\ CanDispatch("button_handler")
    /\ \E data \in Tokens, a \in CallOutcomes, e \in CallOutcomes :
          Dispatched(button_handler(variant, env, data, a, e))

DispatchMessage(T) ==
    /\ CanDispatch("handle_message")
    /\ \E text \in T, f \in ForwardOutcomes, r1 \in CallOutcomes, r2 \in CallOutcomes :
          Dispatched(handle_message(variant, env, text, f, r1, r2))

\* A pass that entered the except block of handle_message.
FailedRelay(p) == p.handler = "handle_message" /\ p.log # <<>>
\* The body passed to reply_text in the except block.
ErrorReplyOf(p) == p.replies[Len(p.replies)].body

\* The update is dropped once its pass is over; the cause and the reply of a
\* failed relay are remembered for comparison with the next one.
Discard ==
    /\ cur # NoUpdate
    /\ cur' = NoUpdate
    /\ lastFailure' = IF FailedRelay(cur)
                      THEN <<[cause |-> cur.log[1], reply |-> ErrorReplyOf(cur)]>>
                      ELSE lastFailure
    /\ UNCHANGED <<variant, env, pc, exitCause, depth, fastapi, keepAlive, health,
                   serverUp, handlers, appState, appSet, webhook, queueLen, http,
                   handled>>

\* The texts whose handling the life of the service is followed with.
SampleTexts == {<<"1">>, <<" ", "1">>, <<"a">>, <<"SUP2">>}

Lifecycle ==
    \/ MainEntry \/ MainValidate \/ MainStartThreads \/ MainBuildApp
    \/ RunPolling \/ PollingCrash \/ PollingStop \/ Restart
    \/ \E i \in 1..RecursionLimit : run_fastapi(i)
    \/ \E i \in 1..RecursionLimit : keep_alive(i)
    \/ \E i \in 1..RecursionLimit : bot_health_monitor(i)
    \/ EnvCheck \/ Run \/ OnStartupBuild \/ StartupDeleteWebhook
    \/ StartupSetWebhook \/ StartupInitialize \/ StartupStart
    \/ OnShutdownStop \/ OnShutdownDeleteWebhook \/ WebhookPost

Next ==
    \/ Lifecycle
    \/ DispatchStart \/ DispatchButton \/ DispatchMessage(SampleTexts) \/ Discard

Spec == Init /\ [][Next]_vars

\* ------------------------------------------------------- handlers in depth
\* A serving state of either variant with a valid configuration; the webhook
\* variant has MaxQueue updates waiting.
HandlerInit ==
    /\ variant \in Variants
    /\ env \in {c \in Configs(variant) : \A k \in Required(variant) : ~Missing(c[k])}
    /\ pc = IF variant = "polling" THEN "polling" ELSE "serving"
    /\ exitCause = "none"
    /\ depth = IF variant = "polling" THEN 1 ELSE 0
    /\ fastapi = IF variant = "polling" THEN <<"serving">> ELSE <<>>
    /\ keepAlive = IF variant = "polling" THEN <<"running">> ELSE <<>>
    /\ health = IF variant = "polling" THEN <<"running">> ELSE <<>>
    /\ serverUp = (variant = "webhook")
    /\ handlers = AllHandlers
    /\ appState = "running"
    /\ appSet = (variant = "webhook")
    /\ webhook = IF variant = "webhook" THEN "set" ELSE "none"
    /\ queueLen = IF variant = "webhook" THEN MaxQueue ELSE 0
    /\ http = IF variant = "webhook"
              THEN [body |-> "update", status |-> 200, enqueued |-> TRUE]
              ELSE NoResponse
    /\ cur = NoUpdate
    /\ lastFailure = NoFailure
    /\ handled = FALSE

HandlerNext ==
    \/ DispatchStart \/ DispatchButton \/ DispatchMessage(Texts) \/ Discard

HandlerSpec == HandlerInit /\ [][HandlerNext]_vars

\* ================================================================== claims
AsciiDigits(s) == s # <<>> /\ \A i \in 1..Len(s) : IsAsciiDigit(s[i])
Delivered(p) == Cardinality({i \in DOMAIN p.replies : p.replies[i].ok})
ForwardedAs(p, id) ==
    /\ Len(p.forwards) = 1
    /\ p.forwards[1].call.message_id = id
    /\ p.forwards[1].call.from_chat_id = env["PRIVATE_CHANNEL_ID"]
FallbackOnly(p) ==
    /\ p.forwards = <<>>
    /\ Len(p.replies) = 1
    /\ p.replies[1].body = <<"send_numeric_id", env["PUBLIC_CHANNEL"]>>
ErrorOnly(p) ==
    /\ p.forwards = <<>>
    /\ Len(p.replies) = 1
    /\ p.replies[1].body = <<"error", env["PUBLIC_CHANNEL"]>>

\* C1 (as stated): a text of ASCII digits only is forwarded under its
\* integer value; every other text gets the fallback reply and no forward.
C1_DigitsOnlyRouting ==
    cur.handler = "handle_message" =>
        IF AsciiDigits(cur.text)
        THEN ForwardedAs(cur, IntVal(cur.text))
        ELSE FallbackOnly(cur)

\* C1 (amended): the test is made on the text with its leading and trailing
\* whitespace removed.  Stripped ASCII digits are forwarded under their
\* integer value when PRIVATE_CHANNEL_ID is an integer; a stripped text that
\* is empty or holds a character str.isdigit rejects gets the fallback reply
\* and no forward; a stripped text of Unicode digits takes the relay branch
\* too, forwarded when int() accepts it and the channel id, and answered
\* with the generic error, without any forward, when int() raises.
C1_StrippedDigitsRouting ==
    cur.handler = "handle_message" =>
        LET t == strip(cur.text)
            chanOk == env["PRIVATE_CHANNEL_ID"] = NumericId
            allDigits == t # <<>> /\ \A i \in 1..Len(t) : IsDigitChar(t[i])
            allDecimal == \A i \in 1..Len(t) : IsDecimalChar(t[i])
        IN  /\ (AsciiDigits(t) /\ chanOk) => ForwardedAs(cur, IntVal(t))
            /\ ~allDigits => FallbackOnly(cur)
            /\ (allDigits /\ allDecimal /\ chanOk) => ForwardedAs(cur, IntVal(t))
            /\ (allDigits /\ ~(allDecimal /\ chanOk)) => ErrorOnly(cur)

\* C1 witness: digits with surrounding whitespace were forwarded.
C1_Witness ==
    /\ cur.handler = "handle_message"
    /\ cur.text # strip(cur.text)
    /\ Len(strip(cur.text)) = 2
    /\ ForwardedAs(cur, IntVal(strip(cur.text)))

C3_TokenSelectsBody ==
    (cur.handler = "button_handler" /\ cur.answered = "ok") =>
        /\ Len(cur.edits) = 1
        /\ cur.edits[1].body[1] =
              IF cur.data = "get_started" THEN "onboarding" ELSE "help"

\* C4 (as stated): no handling pass raises to its caller, every failure is
\* logged and answered with an error reply, and at most one reply is sent.
C4_NeverRaises ==
    cur # NoUpdate =>
        /\ cur.raised = "none"
        /\ Delivered(cur) <= 1

\* C5: with a required variable unset or empty the service never serves:
\* no server, no thread, no application, no handler, no update handled.
C5_MissingConfigNeverServes ==
    (\E k \in Required(variant) : env[k] \in {None, ""}) =>
        /\ ~serverUp
        /\ fastapi = <<>> /\ keepAlive = <<>> /\ health = <<>>
        /\ handlers = {}
        /\ appState = "none" /\ ~appSet
        /\ queueLen = 0 /\ http = NoResponse
        /\ ~handled /\ cur = NoUpdate

\* C5 witness: the check has refused a configuration whose only fault is an
\* empty string.
C5_Witness ==
    /\ pc = "exited"
    /\ exitCause \in {"ValueError", "RuntimeError"}
    /\ \A k \in Required(variant) : env[k] # None
    /\ \E k \in Required(variant) : env[k] = ""

\* C6: a malformed body is answered 400 and enqueues nothing, ready or not.
C6_MalformedIs400 ==
    [][http'.body = "malformed" =>
          /\ http'.status = 400
          /\ ~http'.enqueued
          /\ http' # http => queueLen' = queueLen]_vars

\* C6 witness: a malformed body was answered before the application was
\* stored in app.state.
C6_Witness == http.body = "malformed" /\ ~appSet /\ serverUp

\* Initialized as the claim has it: handlers registered, webhook registered,
\* initialize() and start() completed, not stopped by on_shutdown.
C7_Initialized ==
    handlers = AllHandlers /\ webhook = "set" /\ appState = "running"

\* C7 (as stated): an update is enqueued and answered 200 only when the
\* handlers are registered, the webhook is registered and the application
\* is started and not stopped; otherwise it is answered 503 and dropped.
C7_EnqueuedOnlyWhenInitialized ==
    [][(http'.body = "update" /\ (http' # http \/ queueLen' > queueLen)) =>
          IF C7_Initialized
          THEN http'.status = 200 /\ queueLen' = queueLen + 1
          ELSE http'.status = 503 /\ queueLen' = queueLen]_vars

\* A relay attempt that did not end with the confirmation delivered.
C8_RelayFailed(p) ==
    /\ p.handler = "handle_message"
    /\ isdigit(strip(p.text))
    /\ ~(Len(p.replies) = 1 /\ p.replies[1].body = <<"book_sent">> /\ p.replies[1].ok)

\* C8: a failed relay shows the user one fixed message built from the
\* public channel alone; the cause is in the log and not in the reply, and
\* two failures of different causes show the same reply.
C8_GenericFailureReply ==
    C8_RelayFailed(cur) =>
        LET shown == cur.replies[Len(cur.replies)].body
        IN  /\ shown = <<"error", env["PUBLIC_CHANNEL"]>>
            /\ Len(cur.log) = 1
            /\ \A i \in DOMAIN shown : shown[i] # cur.log[1]
            /\ lastFailure # NoFailure => lastFailure[1].reply = shown

\* C8 witness: two relays in a row failed for different causes.
C8_Witness ==
    /\ C8_RelayFailed(cur)
    /\ lastFailure # NoFailure
    /\ lastFailure[1].cause = "NotFound"
    /\ cur.log = <<"ValueError">>

\* C9 (as stated): the pause that follows a crash of run_polling always
\* ends in a new call of main(), however many restarts came before.
C9_EveryCrashRestarts ==
    [][(pc = "sleeping" /\ pc' # "sleeping") =>
          (pc' = "validate" /\ depth' = depth + 1)]_vars

\* C10: once a main() call has started its threads, as many threads of each
\* kind have been started as main() was called, all keep-alive and
\* health-monitor threads run, and at most one server thread holds the port.
C10_ThreadsAccumulate ==
    (variant = "polling" /\ pc \in {"run_polling", "polling", "sleeping"}) =>
        /\ Len(fastapi) = depth /\ Len(keepAlive) = depth /\ Len(health) = depth
        /\ \A i \in 1..depth : keepAlive[i] = "running" /\ health[i] = "running"
        /\ Cardinality({i \in 1..depth : fastapi[i] = "serving"}) <= 1

\* C10 witness: after a crash-restart two threads of each kind exist and the
\* second server thread failed to bind the port.
C10_Witness ==
    /\ pc = "polling" /\ depth = 2
    /\ Len(keepAlive) = 2 /\ Len(health) = 2
    /\ fastapi = <<"serving", "bind_failed">>
====
